---- MODULE Spec2Model ----
(***************************************************************************)
(* State-machine model of the chain system of stoic-python-core:           *)
(*   DispatchBase (src/chain/dispatch_base.py),                            *)
(*   NodeBase     (src/chain/node_base.py),                                *)
(*   ChainHelper  (src/chain/chain_helper.py),                             *)
(* and of ReturnHelper (src/utilities/return_helper.py).                   *)
(*                                                                         *)
(* One dispatch and one chain are modelled.  The program is single         *)
(* threaded: a caller invokes the public methods one after the other, and  *)
(* while ChainHelper.traverse runs, control is inside the process() of one *)
(* linked node.  process() is abstract, so its body is modelled as any     *)
(* finite sequence of calls on the dispatch and of link_node /             *)
(* toggle_debug / hook_logger / log calls on the chain, followed by its    *)
(* return.  A process() body that calls traverse again is not modelled.    *)
(*                                                                         *)
(* Optional[T] values are modelled as sequences: None is <<>>, a present   *)
(* value x is <<x>>.                                                       *)
(***************************************************************************)
EXTENDS Integers, Sequences, FiniteSets, TLC

\* ------------------------------------------------------------------ bounds
\* Longest node list the model lets link_node build.
MaxNodes == 3
\* Longest result list the model lets a stateful set_result build when the
\* dispatch is studied on its own.
MaxResults == 2
\* Longest result list the model lets a stateful set_result build when the
\* dispatch travels through a chain.
MaxChainResults == 1
\* Latest time the model lets the clock reach.
MaxClock == 2
\* Longest message list and result list the model lets ReturnHelper build.
MaxItems == 2

\* ------------------------------------------------------------ input values
None == <<>>
Some(x) == <<x>>

\* Opaque result values handed to set_result.
Values == {"r1", "r2"}

\* NodeBase objects after construction and optional set_key / set_version.
Node(k, v) == [key |-> k, version |-> v]
NodeX == Node(Some("k"), Some("1"))
NodeY == Node(Some("k2"), Some("2"))
ValidNodes == {NodeX, NodeY}
InvalidNodes == { Node(None, None),          Node(None, Some("1")),
                  Node(Some(""), Some("1")), Node(Some("k"), None),
                  Node(Some("k"), Some("")) }
NodeInputs == ValidNodes \cup InvalidNodes

\* One callable that can be hooked as logger.
Callbacks == {"cb"}

\* The messages ChainHelper hands to log (the text before the formatted
\* node or dispatch).
MsgInvalidNode == "Attempted to add invalid node"
MsgSetEvent == "Setting event node"
MsgLinkNew == "Linking new node"
MsgNoNodes == "Attempted to traverse chain with no nodes"
MsgInvalidDispatch == "Attempted to traverse chain with invalid dispatch"
MsgConsumedDispatch == "Attempted to traverse chain with consumed dispatch"
MsgSendEvent == "Sending dispatch to event node"
MsgSendNode == "Sending dispatch to node"
MsgConsumedBy == "Dispatch consumed by node"
MsgDirect == "direct"

\* ReturnHelper status constants.
STATUS_BAD == 0
STATUS_GOOD == 1
\* Messages and results handed to ReturnHelper, one at a time or as a list
\* (the empty list included).
Items == {"i1", "i2"}
ItemLists == {<<>>} \cup {<<a>> : a \in Items}
                   \cup {<<a, b>> : a \in Items, b \in Items}

VARIABLES
  \* DispatchBase fields
  is_consumable, is_stateful, is_consumed, results, is_valid, called_date_time,
  \* ChainHelper fields
  nodes, is_event, do_debug, logger,
  \* the clock read by datetime.now
  now,
  \* the running traverse call: where control is, the loop position, the local
  \* is_consumable captured before the loop
  pc, idx, local_is_consumable,
  \* observation of the last call: its name when it was traverse or consume
  \* ("other" for the calls whose return value carries nothing), its return
  \* value, the messages it forwarded to the hooked logger
  op, ret, sent,
  \* observation of the traverse call that is running or has just returned:
  \* the nodes whose process was invoked, in order; the state the call began
  \* in; the loop position whose process consumed the dispatch (0: none)
  invoked, pre, consumed_at,
  \* the number of consume calls that returned True
  consumes_ok,
  \* history of the stored results, kept by the Tracked actions of SpecResults:
  \* the last value passed to set_result, the number of set_result calls
  \* (counted up to two), the results held when make_stateful was first
  \* called, the values passed to set_result since then
  last_set, set_calls, held, stateful_sets,
  \* history of the chain: the valid nodes passed to link_node, in call order
  \* (for an event chain, the last two of them)
  link_log,
  \* ReturnHelper fields
  rh_messages, rh_results, rh_status,
  \* observation of the last ReturnHelper call: its name and argument, and
  \* "None" when it returned or the name of the exception it raised
  rh_call, rh_ret

dispatchVars == <<is_consumable, is_stateful, is_consumed, results, is_valid,
                  called_date_time>>
chainVars == <<nodes, is_event, do_debug, logger>>
frameVars == <<pc, idx, local_is_consumable>>
callVars == <<invoked, pre, consumed_at>>
histVars == <<last_set, set_calls, held, stateful_sets>>
rhVars == <<rh_messages, rh_results, rh_status, rh_call, rh_ret>>
vars == <<dispatchVars, chainVars, now, frameVars, op, ret, sent, callVars,
          consumes_ok, histVars, link_log, rhVars>>

NoPre == [n |-> 0, valid |-> FALSE, consumable |-> FALSE, consumed |-> FALSE]

\* -------------------------------------------------------------- NodeBase
\* bool(self._key) and bool(self._version)
Truthy(s) == s # None /\ s[1] # ""
node_is_valid_key_only(node) == Truthy(node.key)
node_is_valid(node) == Truthy(node.key) /\ Truthy(node.version)

\* ---------------------------------------------------------- DispatchBase
num_results == Len(results)

get_results_always_list == Some(results)
get_results == IF Len(results) < 1 THEN None ELSE Some(results)

\* datetime.now(timezone.utc)
utc_now_behind == now - 1
utc_now == now

consume_ok_ignores_consumed == is_consumable
consume_ok_ignores_consumable == ~is_consumed
consume_ok == is_consumable /\ ~is_consumed

set_result_always_appends(rs, stateful, result) == Append(rs, result)
set_result_keeps_first(rs, stateful, result) ==
  IF ~stateful THEN (IF rs = <<>> THEN <<result>> ELSE rs) ELSE Append(rs, result)
set_result_never_appends(rs, stateful, result) == <<result>>
set_result(rs, stateful, result) ==
  IF ~stateful THEN <<result>> ELSE Append(rs, result)

\* ----------------------------------------------------------- ChainHelper
\* ChainHelper.log: the messages that reach the hooked callback.
log(message) == IF logger # None THEN <<message>> ELSE <<>>
\* "if self._do_debug: self.log(...)" at every call site in ChainHelper.
debug_log(message) == IF do_debug THEN log(message) ELSE <<>>

\* The node list link_node leaves after linking a valid node.
linked_nodes_always_appends(ns, event, node) == Append(ns, node)
linked_nodes_prepends(ns, event, node) ==
  IF event THEN <<node>> ELSE <<node>> \o ns
linked_nodes(ns, event, node) ==
  IF event THEN <<node>> ELSE Append(ns, node)

get_node_list == [i \in 1..Len(nodes) |->
                    [key |-> nodes[i].key, version |-> nodes[i].version]]

\* The three rejections of traverse, in order; "" when the dispatch passes.
traverse_rejection_no_valid_check ==
  IF Len(nodes) < 1 THEN MsgNoNodes
  ELSE IF is_consumable /\ is_consumed THEN MsgConsumedDispatch
  ELSE ""
traverse_rejection_no_consumed_check ==
  IF Len(nodes) < 1 THEN MsgNoNodes
  ELSE IF ~is_valid THEN MsgInvalidDispatch
  ELSE ""
traverse_rejection ==
  IF Len(nodes) < 1 THEN MsgNoNodes
  ELSE IF ~is_valid THEN MsgInvalidDispatch
  ELSE IF is_consumable /\ is_consumed THEN MsgConsumedDispatch
  ELSE ""

\* "if is_consumable and dispatch.is_consumed(): break"
short_circuit_never == FALSE
short_circuit_live_flag == is_consumable /\ is_consumed
short_circuit == local_is_consumable /\ is_consumed

\* ------------------------------------------------------------ observation
\* Every call records its name, return value and forwarded messages.  A call
\* made by the caller (not from inside process) ends the observation of the
\* previous traverse call.
Note(o, r, s) ==
  /\ op' = o
  /\ ret' = r
  /\ sent' = s
  /\ IF pc = "idle"
       THEN /\ invoked' = <<>>
            /\ pre' = NoPre
            /\ consumed_at' = 0
       ELSE UNCHANGED callVars

NoteInCall(o, r, s) ==
  /\ op' = o
  /\ ret' = r
  /\ sent' = s

\* ------------------------------------------------------------------- Init
Init ==
  /\ is_consumable = FALSE
  /\ is_stateful = FALSE
  /\ is_consumed = FALSE
  /\ results = <<>>
  /\ is_valid = FALSE
  /\ called_date_time = None
  /\ nodes = <<>>
  /\ is_event \in BOOLEAN
  /\ do_debug \in BOOLEAN
  /\ logger = None
  /\ now = 0
  /\ pc = "idle"
  /\ idx = 0
  /\ local_is_consumable = FALSE
  /\ op = "other"
  /\ ret = "None"
  /\ sent = <<>>
  /\ invoked = <<>>
  /\ pre = NoPre
  /\ consumed_at = 0
  /\ consumes_ok = 0
  /\ last_set = None
  /\ set_calls = 0
  /\ held = <<>>
  /\ stateful_sets = <<>>
  /\ link_log = <<>>
  /\ rh_messages = <<>>
  /\ rh_results = <<>>
  /\ rh_status = STATUS_BAD
  /\ rh_call = [name |-> "__init__", arg |-> <<>>]
  /\ rh_ret = "None"

\* ------------------------------------------------- DispatchBase operations
Consume ==
  /\ IF consume_ok
       THEN /\ is_consumed' = TRUE
            /\ consumes_ok' = consumes_ok + 1
            /\ op' = "consume" /\ ret' = "True" /\ sent' = <<>>
            /\ IF pc = "idle"
                 THEN invoked' = <<>> /\ pre' = NoPre /\ consumed_at' = 0
                 ELSE consumed_at' = idx /\ UNCHANGED <<invoked, pre>>
       ELSE /\ Note("consume", "False", <<>>)
            /\ UNCHANGED <<is_consumed, consumes_ok>>
  /\ UNCHANGED <<is_consumable, is_stateful, results, is_valid, called_date_time>>
  /\ UNCHANGED <<chainVars, now, frameVars, histVars, link_log, rhVars>>

MakeConsumable ==
  /\ is_consumable' = TRUE
  /\ Note("other", "self", <<>>)
  /\ UNCHANGED <<is_stateful, is_consumed, results, is_valid, called_date_time>>
  /\ UNCHANGED <<chainVars, now, frameVars, consumes_ok, histVars, link_log, rhVars>>

make_stateful_toggles ==
  /\ is_stateful' = ~is_stateful
  /\ Note("other", "self", <<>>)
  /\ UNCHANGED <<is_consumable, is_consumed, results, is_valid, called_date_time>>
  /\ UNCHANGED <<chainVars, now, frameVars, consumes_ok, link_log, rhVars>>

make_stateful ==
  /\ is_stateful' = TRUE
  /\ Note("other", "self", <<>>)
  /\ UNCHANGED <<is_consumable, is_consumed, results, is_valid, called_date_time>>
  /\ UNCHANGED <<chainVars, now, frameVars, consumes_ok, link_log, rhVars>>

MakeStateful ==
  /\ make_stateful
  /\ UNCHANGED histVars

MakeStatefulTracked ==
  /\ pc = "idle"
  /\ make_stateful
  /\ held' = IF is_stateful THEN held ELSE results
  /\ UNCHANGED <<last_set, set_calls, stateful_sets>>

MakeValid ==
  /\ called_date_time' = Some(utc_now)
  /\ is_valid' = TRUE
  /\ Note("other", "self", <<>>)
  /\ UNCHANGED <<is_consumable, is_stateful, is_consumed, results>>
  /\ UNCHANGED <<chainVars, now, frameVars, consumes_ok, histVars, link_log, rhVars>>

set_result_call(result, cap) ==
  /\ is_stateful => Len(results) < cap
  /\ results' = set_result(results, is_stateful, result)
  /\ Note("other", "self", <<>>)
  /\ UNCHANGED <<is_consumable, is_stateful, is_consumed, is_valid, called_date_time>>
  /\ UNCHANGED <<chainVars, now, frameVars, consumes_ok, link_log, rhVars>>

SetResult(result) ==
  /\ set_result_call(result, MaxChainResults)
  /\ UNCHANGED histVars

SetResultTracked(result) ==
  /\ pc = "idle"
  /\ set_result_call(result, MaxResults)
  /\ last_set' = Some(result)
  /\ set_calls' = IF set_calls < 2 THEN set_calls + 1 ELSE set_calls
  /\ stateful_sets' = IF is_stateful THEN Append(stateful_sets, result)
                                     ELSE stateful_sets
  /\ UNCHANGED held

\* -------------------------------------------------- ChainHelper operations
ToggleDebug(b) ==
  /\ do_debug' = b
  /\ Note("other", "self", <<>>)
  /\ UNCHANGED <<nodes, is_event, logger>>
  /\ UNCHANGED <<dispatchVars, now, frameVars, consumes_ok, histVars, link_log, rhVars>>

HookLogger(callback) ==
  /\ logger' = Some(callback)
  /\ Note("other", "None", <<>>)
  /\ UNCHANGED <<nodes, is_event, do_debug>>
  /\ UNCHANGED <<dispatchVars, now, frameVars, consumes_ok, histVars, link_log, rhVars>>

Log ==
  /\ Note("other", "None", log(MsgDirect))
  /\ UNCHANGED <<dispatchVars, chainVars, now, frameVars, consumes_ok, histVars, link_log, rhVars>>

LinkNode(node) ==
  /\ (node_is_valid(node) /\ ~is_event) => Len(nodes) < MaxNodes
  /\ IF ~node_is_valid(node)
       THEN /\ Note("other", "self", debug_log(MsgInvalidNode))
            /\ UNCHANGED <<nodes, link_log>>
       ELSE /\ Note("other", "self",
                    debug_log(IF is_event THEN MsgSetEvent ELSE MsgLinkNew))
            /\ nodes' = linked_nodes(nodes, is_event, node)
            /\ link_log' = IF ~is_event THEN Append(link_log, node)
                            ELSE IF link_log = <<>> THEN <<node>>
                            ELSE <<link_log[Len(link_log)], node>>
  /\ UNCHANGED <<is_event, do_debug, logger>>
  /\ UNCHANGED <<dispatchVars, now, frameVars, consumes_ok, histVars, rhVars>>

\* The call of traverse, up to the first process invocation (or the rejection).
Traverse ==
  /\ pc = "idle"
  /\ pre' = [n |-> Len(nodes), valid |-> is_valid,
             consumable |-> is_consumable, consumed |-> is_consumed]
  /\ consumed_at' = 0
  /\ IF traverse_rejection # ""
       THEN /\ NoteInCall("traverse", "False", debug_log(traverse_rejection))
            /\ invoked' = <<>>
            /\ UNCHANGED frameVars
       ELSE /\ local_is_consumable' = is_consumable
            /\ idx' = 1
            /\ pc' = "process"
            /\ invoked' = <<nodes[1]>>
            /\ NoteInCall("traverse", "pending",
                          debug_log(IF is_event THEN MsgSendEvent ELSE MsgSendNode))
  /\ UNCHANGED <<dispatchVars, chainVars, now, consumes_ok, histVars, link_log, rhVars>>

\* The running process returns; traverse goes on to its next step.
ProcessReturn ==
  /\ pc = "process"
  /\ IF is_event
       THEN \* line 146, then line 160
            /\ pc' = "idle" /\ idx' = 0 /\ local_is_consumable' = FALSE
            /\ NoteInCall("traverse", "True", <<>>)
            /\ UNCHANGED invoked
       ELSE IF short_circuit
         THEN \* lines 154-158, then line 160
              /\ pc' = "idle" /\ idx' = 0 /\ local_is_consumable' = FALSE
              /\ NoteInCall("traverse", "True", debug_log(MsgConsumedBy))
              /\ UNCHANGED invoked
         ELSE IF idx < Len(nodes)
           THEN \* next iteration of the loop over self._nodes
                /\ idx' = idx + 1
                /\ invoked' = Append(invoked, nodes[idx + 1])
                /\ NoteInCall("traverse", "pending", debug_log(MsgSendNode))
                /\ UNCHANGED <<pc, local_is_consumable>>
           ELSE \* list exhausted, line 160
                /\ pc' = "idle" /\ idx' = 0 /\ local_is_consumable' = FALSE
                /\ NoteInCall("traverse", "True", <<>>)
                /\ UNCHANGED invoked
  /\ UNCHANGED <<pre, consumed_at>>
  /\ UNCHANGED <<dispatchVars, chainVars, now, consumes_ok, histVars, link_log, rhVars>>

Next ==
  \/ Consume
  \/ MakeConsumable
  \/ MakeStateful
  \/ MakeValid
  \/ \E result \in Values : SetResult(result)
  \/ \E b \in BOOLEAN : ToggleDebug(b)
  \/ \E callback \in Callbacks : HookLogger(callback)
  \/ Log
  \/ \E node \in NodeInputs : LinkNode(node)
  \/ Traverse
  \/ ProcessReturn

Spec == Init /\ [][Next]_vars

\* The dispatch alone, called directly, with the history of its results kept.
NextResults ==
  \/ Consume
  \/ MakeConsumable
  \/ MakeStatefulTracked
  \/ MakeValid
  \/ \E result \in Values : SetResultTracked(result)

SpecResults == Init /\ [][NextResults]_vars

\* ------------------------------------------------------------ the clock
\* Time passes between two calls.
Tick ==
  /\ now < MaxClock
  /\ now' = now + 1
  /\ UNCHANGED <<dispatchVars, chainVars, frameVars, op, ret, sent, callVars,
                 consumes_ok, histVars, link_log, rhVars>>

\* The dispatch alone, called directly, while time passes.
NextClock ==
  \/ Tick
  \/ Consume
  \/ MakeConsumable
  \/ MakeStateful
  \/ MakeValid
  \/ \E result \in Values : SetResult(result)

SpecClock == Init /\ [][NextClock]_vars

\* ----------------------------------------------------------- ReturnHelper
chainSide == <<dispatchVars, chainVars, now, frameVars, op, ret, sent, callVars,
               consumes_ok, histVars, link_log>>

\* "if len(...) < 1: raise ValueError(...)"
bulk_rejected_never(items) == FALSE
bulk_rejected(items) == Len(items) < 1

\* "for x in items: collection.append(x)"
RECURSIVE append_all(_, _)
append_all(collection, items) ==
  IF items = <<>> THEN collection
  ELSE append_all(Append(collection, Head(items)), Tail(items))

AddMessage(message) ==
  /\ Len(rh_messages) < MaxItems
  /\ rh_messages' = Append(rh_messages, message)
  /\ rh_call' = [name |-> "add_message", arg |-> <<message>>]
  /\ rh_ret' = "None"
  /\ UNCHANGED <<rh_results, rh_status, chainSide>>

AddMessages(messages) ==
  /\ Len(rh_messages) + Len(messages) <= MaxItems
  /\ rh_call' = [name |-> "add_messages", arg |-> messages]
  /\ IF bulk_rejected(messages)
       THEN /\ rh_ret' = "ValueError"
            /\ UNCHANGED rh_messages
       ELSE /\ rh_ret' = "None"
            /\ rh_messages' = append_all(rh_messages, messages)
  /\ UNCHANGED <<rh_results, rh_status, chainSide>>

AddResult(result) ==
  /\ Len(rh_results) < MaxItems
  /\ rh_results' = Append(rh_results, result)
  /\ rh_call' = [name |-> "add_result", arg |-> <<result>>]
  /\ rh_ret' = "None"
  /\ UNCHANGED <<rh_messages, rh_status, chainSide>>

AddResults(rs) ==
  /\ Len(rh_results) + Len(rs) <= MaxItems
  /\ rh_call' = [name |-> "add_results", arg |-> rs]
  /\ IF bulk_rejected(rs)
       THEN /\ rh_ret' = "ValueError"
            /\ UNCHANGED rh_results
       ELSE /\ rh_ret' = "None"
            /\ rh_results' = append_all(rh_results, rs)
  /\ UNCHANGED <<rh_messages, rh_status, chainSide>>

MakeBad ==
  /\ rh_status' = STATUS_BAD
  /\ rh_call' = [name |-> "make_bad", arg |-> <<>>]
  /\ rh_ret' = "None"
  /\ UNCHANGED <<rh_messages, rh_results, chainSide>>

MakeGood ==
  /\ rh_status' = STATUS_GOOD
  /\ rh_call' = [name |-> "make_good", arg |-> <<>>]
  /\ rh_ret' = "None"
  /\ UNCHANGED <<rh_messages, rh_results, chainSide>>

NextReturn ==
  \/ \E message \in Items : AddMessage(message)
  \/ \E messages \in ItemLists : AddMessages(messages)
  \/ \E result \in Items : AddResult(result)
  \/ \E rs \in ItemLists : AddResults(rs)
  \/ MakeBad
  \/ MakeGood

SpecReturn == Init /\ [][NextReturn]_vars

\* ------------------------------------------------------------------ claims
\* The observed traverse call passed the three rejections: it is running or
\* has just returned.
Accepted == pre.n >= 1 /\ pre.valid /\ ~(pre.consumable /\ pre.consumed)

\* A step that is the call of traverse.
TraverseCalled == pc = "idle" /\ op' = "traverse"

\* C1: traverse returns False whenever the node list is empty, or the dispatch
\* is not valid, or the dispatch is consumable and already consumed, and in
\* each of these cases the call invokes the process of no node.
C1_TraverseRejects ==
  [][ (TraverseCalled /\ (Len(nodes) < 1 \/ ~is_valid
                            \/ (is_consumable /\ is_consumed)))
        => (ret' = "False" /\ pc' = "idle" /\ invoked' = <<>>) ]_vars

C1_Witness ==
  /\ pc = "idle" /\ op = "traverse" /\ ret = "False" /\ invoked = <<>>
  /\ ~is_event /\ Len(nodes) = 3
  /\ pre.n = 3 /\ pre.valid /\ pre.consumable /\ pre.consumed

\* C2: in a non-event chain, for a dispatch that is valid, consumable and not
\* consumed when traverse is called: once the process of the node at position
\* k has consumed the dispatch, no node at a later position is invoked, the
\* nodes at positions 1..k are the ones invoked, once each and in link order,
\* and traverse returns True.
C2_ConsumeStopsTraversal ==
  (~is_event /\ Accepted /\ pre.consumable /\ is_consumed)
    => /\ consumed_at >= 1
       /\ Len(invoked) = consumed_at
       /\ invoked = SubSeq(nodes, 1, consumed_at)
       /\ pc = "process" => idx = consumed_at
       /\ pc = "idle" => (op = "traverse" /\ ret = "True")

C2_Witness ==
  /\ pc = "idle" /\ op = "traverse" /\ ret = "True"
  /\ ~is_event /\ pre.consumable /\ ~pre.consumed /\ is_consumed
  /\ nodes = <<NodeX, NodeY, NodeX>>
  /\ consumed_at = 2 /\ invoked = <<NodeX, NodeY>>

\* C3: in a non-event chain with at least one node, for a dispatch that is
\* valid and not consumable when traverse is called, the call invokes process
\* once per position of the node list, in link order (a node linked twice is
\* invoked at both of its positions), and returns True.
C3_NonConsumableVisitsAll ==
  (~is_event /\ Accepted /\ ~pre.consumable)
    => /\ invoked = SubSeq(nodes, 1, Len(invoked))
       /\ pc = "process" => Len(invoked) = idx
       /\ pc = "idle" => (op = "traverse" /\ ret = "True" /\ invoked = nodes)

C3_Witness ==
  /\ pc = "idle" /\ op = "traverse" /\ ret = "True"
  /\ ~is_event /\ pre.n = 3 /\ ~pre.consumable
  /\ nodes = <<NodeX, NodeY, NodeX>> /\ invoked = nodes

\* C4: consume returns True and sets is_consumed exactly when the dispatch is
\* consumable and not yet consumed; otherwise it returns False and changes no
\* field of the dispatch.  So at most one consume call ever returns True, and
\* once is_consumed is True it stays True.
C4_Consume ==
  /\ [][ op' = "consume"
           => IF is_consumable /\ ~is_consumed
                THEN /\ ret' = "True"
                     /\ is_consumed'
                     /\ UNCHANGED <<is_consumable, is_stateful, results,
                                    is_valid, called_date_time>>
                ELSE /\ ret' = "False"
                     /\ UNCHANGED dispatchVars ]_vars
  /\ [][ is_consumed => is_consumed' ]_vars
  /\ [](consumes_ok <= 1)

C4_Witness ==
  /\ op = "consume" /\ ret = "False"
  /\ is_consumable /\ is_consumed /\ consumes_ok = 1

\* C5: once a consume call on the dispatch has returned True (from a node's
\* process or from the caller), every later traverse call with the dispatch
\* returns False and invokes no node, in event mode and in ordered mode.
C5_ConsumedNeverTraversed ==
  [][ (TraverseCalled /\ consumes_ok >= 1)
        => (ret' = "False" /\ pc' = "idle" /\ invoked' = <<>>) ]_vars

C5_Witness ==
  /\ pc = "idle" /\ op = "traverse" /\ ret = "False" /\ invoked = <<>>
  /\ is_event /\ Len(nodes) = 1
  /\ pre.n = 1 /\ pre.valid /\ pre.consumed /\ consumes_ok = 1

\* C6: in every reachable state of the dispatch, is_consumed implies
\* is_consumable.
C6_ConsumedImpliesConsumable == is_consumed => is_consumable

C6_Witness ==
  /\ is_consumed /\ is_consumable /\ is_stateful /\ is_valid
  /\ Len(results) = 1 /\ op = "consume" /\ ret = "False"

\* C7: in every reachable state of the dispatch, a dispatch that is not
\* stateful stores no result or one result.
C7_SingleSlotUnlessStateful == ~is_stateful => Len(results) <= 1

C7_Witness ==
  /\ ~is_stateful /\ results = <<"r2">> /\ set_calls = 2 /\ last_set = Some("r2")

\* C8: on a dispatch that is not stateful, after one or more set_result calls
\* num_results is 1 and get_results holds exactly the value of the last call.
C8_NonStatefulKeepsLast ==
  (~is_stateful /\ set_calls >= 1)
    => /\ num_results = 1
       /\ last_set # None
       /\ get_results = Some(<<last_set[1]>>)

C8_Witness ==
  /\ ~is_stateful /\ set_calls = 2 /\ last_set = Some("r1")
  /\ num_results = 1 /\ get_results = Some(<<"r1">>)

\* C9 as stated: on a stateful dispatch, after N set_result calls num_results
\* is N and get_results returns the N values in call order (N counts the
\* calls made since the dispatch became stateful).
C9_Original ==
  is_stateful => /\ num_results = Len(stateful_sets)
                 /\ results = stateful_sets

\* C9, amended: a stateful dispatch stores the result it held when it became
\* stateful (none or one), followed by the values of the set_result calls
\* made since, in call order; when it held none, after N calls num_results is
\* N and get_results returns the N values in call order.
C9_StatefulKeepsAll ==
  is_stateful
    => /\ Len(held) <= 1
       /\ results = held \o stateful_sets
       /\ num_results = Len(held) + Len(stateful_sets)
       /\ (held = <<>> /\ stateful_sets # <<>>)
            => get_results = Some(stateful_sets)

C9_Witness ==
  /\ is_stateful /\ held = <<>> /\ stateful_sets = <<"r2", "r1">>
  /\ num_results = 2 /\ get_results = Some(<<"r2", "r1">>)

\* C10: get_results returns None exactly when num_results is 0, returns the
\* stored, non-empty result list otherwise, and never returns an empty list.
C10_NoneIffEmpty ==
  /\ (get_results = None) <=> (num_results = 0)
  /\ num_results > 0 => (get_results = Some(results) /\ results # <<>>)
  /\ get_results # Some(<<>>)

C10_Witness ==
  /\ pc = "idle" /\ op = "traverse" /\ ret = "True"
  /\ num_results = 0 /\ get_results = None

\* A node the chain must not link: its key or its version is unset or empty.
ClaimInvalid(node) ==
  \/ node.key = None \/ node.key = Some("")
  \/ node.version = None \/ node.version = Some("")

\* C11: link_node called with an invalid node (key or version unset or empty)
\* leaves get_node_list unchanged, in event mode and in ordered mode, and
\* returns the chain itself.
C11_InvalidLinkIsNoOp ==
  [][ (nodes' # nodes \/ ret' # "self")
        => \A node \in {n \in NodeInputs : ClaimInvalid(n)} :
             LinkNode(node)
               => (get_node_list' = get_node_list /\ ret' = "self") ]_vars

C11_Witness ==
  /\ is_event /\ nodes = <<NodeX>> /\ get_node_list = <<NodeX>>
  /\ op = "other" /\ ret = "self" /\ sent = <<MsgInvalidNode>>

\* C12: in an event chain the node list has length 0 or 1 in every reachable
\* state; it is empty while no valid node has been linked, and afterwards it
\* holds exactly the last validly linked node.
C12_EventChainHoldsLastNode ==
  is_event => /\ Len(nodes) <= 1
              /\ link_log = <<>> => nodes = <<>>
              /\ link_log # <<>> => /\ nodes = <<link_log[Len(link_log)]>>
                                    /\ get_node_list = nodes

C12_Witness ==
  /\ is_event /\ link_log = <<NodeX, NodeY>>
  /\ nodes = <<NodeY>> /\ get_node_list = <<NodeY>>

\* C13: in a non-event chain, after N valid nodes were linked get_node_list
\* has length N and lists their key and version in link order, duplicates
\* kept; no step removes or reorders an entry of the list.
C13_OrderedChainKeepsLinkOrder ==
  /\ [](~is_event =>
          /\ nodes = link_log
          /\ Len(get_node_list) = Len(link_log)
          /\ \A i \in 1..Len(link_log) :
               get_node_list[i] = [key |-> link_log[i].key,
                                   version |-> link_log[i].version])
  /\ [][ (~is_event /\ nodes' # nodes) =>
           /\ Len(get_node_list') >= Len(get_node_list)
           /\ SubSeq(get_node_list', 1, Len(get_node_list)) = get_node_list ]_vars

C13_Witness ==
  /\ ~is_event /\ link_log = <<NodeX, NodeX, NodeY>>
  /\ get_node_list = <<NodeX, NodeX, NodeY>>
  /\ pc = "idle" /\ op = "traverse" /\ ret = "True"

\* C14: in event mode a traverse call that passes the rejections invokes
\* process once, on the node linked when the call is made (the last validly
\* linked one), and returns True whether or not that node consumes the
\* dispatch.
C14_EventTraverse ==
  /\ []((is_event /\ Accepted) =>
          /\ Len(invoked) = 1
          /\ pc = "process" => idx = 1
          /\ pc = "idle" => (op = "traverse" /\ ret = "True"))
  /\ [][ (TraverseCalled /\ is_event /\ Len(nodes) >= 1 /\ is_valid
            /\ ~(is_consumable /\ is_consumed))
           => /\ pc' = "process"
              /\ Len(nodes) = 1
              /\ invoked' = <<link_log[Len(link_log)]>> ]_vars

C14_Witness ==
  /\ is_event /\ pc = "idle" /\ op = "traverse" /\ ret = "True"
  /\ link_log = <<NodeX, NodeY>> /\ invoked = <<NodeY>>
  /\ pre.consumable /\ ~pre.consumed /\ is_consumed /\ consumed_at = 1

\* C15: in ReturnHelper, add_messages and add_results called with an empty
\* list raise ValueError and leave the messages, the results and the status
\* unchanged; called with a non-empty list they append every element in
\* order; add_message and add_result never raise and append their argument.
C15_BulkAddsRejectEmpty ==
  [][ /\ rh_call'.name = "add_messages" =>
           IF rh_call'.arg = <<>>
             THEN /\ rh_ret' = "ValueError"
                  /\ UNCHANGED <<rh_messages, rh_results, rh_status>>
             ELSE /\ rh_ret' = "None"
                  /\ rh_messages' = rh_messages \o rh_call'.arg
                  /\ UNCHANGED <<rh_results, rh_status>>
      /\ rh_call'.name = "add_results" =>
           IF rh_call'.arg = <<>>
             THEN /\ rh_ret' = "ValueError"
                  /\ UNCHANGED <<rh_messages, rh_results, rh_status>>
             ELSE /\ rh_ret' = "None"
                  /\ rh_results' = rh_results \o rh_call'.arg
                  /\ UNCHANGED <<rh_messages, rh_status>>
      /\ rh_call'.name = "add_message" =>
           /\ rh_ret' = "None"
           /\ rh_messages' = rh_messages \o rh_call'.arg
           /\ UNCHANGED <<rh_results, rh_status>>
      /\ rh_call'.name = "add_result" =>
           /\ rh_ret' = "None"
           /\ rh_results' = rh_results \o rh_call'.arg
           /\ UNCHANGED <<rh_messages, rh_status>> ]_vars

C15_Witness ==
  /\ rh_call = [name |-> "add_messages", arg |-> <<>>]
  /\ rh_ret = "ValueError"
  /\ rh_messages = <<"i2", "i1">> /\ rh_results = <<"i1">>
  /\ rh_status = STATUS_GOOD

\* C16: in ordered mode the consumption check made after each process reads
\* the dispatch as it is at that moment: once a node's process has left the
\* dispatch consumable and consumed (also when the dispatch was not
\* consumable when traverse was called), no later node is invoked.
C16_LiveConsumptionCheck ==
  (~is_event /\ Accepted /\ is_consumable /\ is_consumed /\ consumed_at >= 1)
    => Len(invoked) = consumed_at

\* C17: a call of log forwards its message to the hooked logger exactly when
\* debug is enabled and a logger is hooked; otherwise it calls no callback.
C17_LogNeedsDebug ==
  [][ Log => ((sent' # <<>>) <=> (do_debug /\ logger # None)) ]_vars

\* C18: a dispatch is constructed invalid with no called_date_time; in every
\* reachable state the dispatch is valid exactly when called_date_time is
\* present (so it is absent before the first make_valid); every step that
\* validates or stamps the dispatch leaves it valid with a time that is not
\* earlier than the time just before the call.
C18_ValidityStamp ==
  /\ (~is_valid /\ called_date_time = None)
  /\ [](is_valid <=> called_date_time # None)
  /\ [][ (is_valid' # is_valid \/ called_date_time' # called_date_time)
           => /\ is_valid'
              /\ called_date_time' # None
              /\ called_date_time'[1] >= now ]_vars

C18_Witness ==
  /\ is_valid /\ called_date_time = Some(1) /\ now = 2

\* C19: is_valid, is_consumable, is_stateful and is_consumed all start False,
\* and no step of the dispatch operations or of a traversal turns one of them
\* from True back to False.
C19_FlagsMonotonic ==
  /\ (~is_valid /\ ~is_consumable /\ ~is_stateful /\ ~is_consumed)
  /\ [][ /\ is_valid => is_valid'
         /\ is_consumable => is_consumable'
         /\ is_stateful => is_stateful'
         /\ is_consumed => is_consumed' ]_vars

C19_Witness ==
  /\ is_valid /\ is_consumable /\ is_stateful /\ is_consumed
  /\ pc = "idle" /\ op = "traverse" /\ ret = "True" /\ consumed_at = 1

\* C20: in ordered mode a traverse call invokes process at most as many times
\* as there were nodes linked when the call began, also when a node's process
\* calls link_node on the chain being traversed.
C20_BoundedByNodesAtCall ==
  (~is_event /\ Accepted) => Len(invoked) <= pre.n

====
